---- MODULE Spec2Model ----
(***************************************************************************)
(* A model of the ams-py server installer.                                 *)
(*                                                                         *)
(*   Spec        the run of src/auto_mc_server.py: main() and everything   *)
(*               it calls, with versions of up to MaxRunLen characters     *)
(*   SpecLoader  loader_setup() alone, called in the MCDR flow and in the  *)
(*               plain flow, with versions of up to MaxLen characters      *)
(*                                                                         *)
(* Text is modelled as sequences: a version string is a sequence of        *)
(* one-character strings, a file name is a sequence of tokens (the dot and *)
(* the extension are tokens of their own), a path and a URL are sequences  *)
(* of names, a text file is a sequence of tokens in which "\n" ends a      *)
(* line.                                                                   *)
(***************************************************************************)
EXTENDS Integers, Sequences, FiniteSets, TLC

(***************************************************************************)
(* Bounds                                                                  *)
(***************************************************************************)
\* longest version string typed at a prompt, in SpecLoader and in Spec
MaxLen == 5
MaxRunLen == 3
\* most entries of a fetched version manifest
MaxManifest == 2
\* most times the model lets an installer run in one run
MaxInstalls == 3
\* network requests after which script.py's vanilla loop asks no more
MaxRequests == 4
\* most lines of a file a patch is applied to alone
MaxLines == 79

(***************************************************************************)
(* Strings                                                                 *)
(***************************************************************************)
Digits == {"1", "2", "5", "7"}
Chars == Digits \cup {".", "x"}

\* every string a prompt can return, up to n characters
Inputs(n) == UNION {[1..k -> Chars] : k \in 0..n}

\* str.strip()
RECURSIVE LStrip(_)
LStrip(s) == IF s # <<>> /\ Head(s) = " " THEN LStrip(Tail(s)) ELSE s
RECURSIVE RStrip(_)
RStrip(s) ==
    IF s # <<>> /\ s[Len(s)] = " " THEN RStrip(SubSeq(s, 1, Len(s) - 1)) ELSE s
Strip(s) == RStrip(LStrip(s))

\* str.split(sep): the pieces between the separators, always at least one
RECURSIVE SplitAcc(_, _, _)
SplitAcc(s, sep, cur) ==
    IF s = <<>> THEN <<cur>>
    ELSE IF Head(s) = sep THEN <<cur>> \o SplitAcc(Tail(s), sep, <<>>)
    ELSE SplitAcc(Tail(s), sep, Append(cur, Head(s)))
Split(s, sep) == SplitAcc(s, sep, <<>>)

\* int(s) raises ValueError unless s is a non-empty run of digits
IsInt(s) == s # <<>> /\ \A i \in 1..Len(s) : s[i] \in Digits
DigitVal(c) == CASE c = "1" -> 1 [] c = "2" -> 2 [] c = "5" -> 5 [] c = "7" -> 7 [] OTHER -> 0
RECURSIVE IntVal(_)
IntVal(s) ==
    IF s = <<>> THEN 0
    ELSE 10 * IntVal(SubSeq(s, 1, Len(s) - 1)) + DigitVal(s[Len(s)])

\* re.match(r'[\d.]', s): only the first character is looked at
MatchDigitDot(s) == s # <<>> /\ s[1] \in Digits \cup {"."}
\* re.match(r'[^\d.]', s)
MatchNotDigitDot(s) == s # <<>> /\ s[1] \notin Digits \cup {"."}

\* the pattern ^[0-9.]+$ of the specification
AllDigitsDots(s) == s # <<>> /\ \A i \in 1..Len(s) : s[i] \in Digits \cup {"."}

(***************************************************************************)
(* Names, paths, URLs                                                      *)
(***************************************************************************)
N(s) == <<s>>
Jar(s) == <<s, ".", "jar">>
Zip(s) == <<s, ".", "zip">>

\* str.replace(old, new) on token sequences
RECURSIVE Replace(_, _, _)
Replace(s, old, new) ==
    IF Len(s) < Len(old) THEN s
    ELSE IF SubSeq(s, 1, Len(old)) = old
         THEN new \o Replace(SubSeq(s, Len(old) + 1, Len(s)), old, new)
         ELSE <<Head(s)>> \o Replace(Tail(s), old, new)

\* str.endswith(suffix)
EndsWith(s, suf) ==
    Len(s) >= Len(suf) /\ SubSeq(s, Len(s) - Len(suf) + 1, Len(s)) = suf

MOJANG_VERSIONS_MANIFEST ==
    <<N("https:"), N(""), N("launchermeta.mojang.com"), N("mc"), N("game"),
      N("version_manifest_v2.json")>>
CARPET_112 ==
    <<N("https:"), N(""), N("gitlab.com"), N("Xcom"), N("carpetinstaller"),
      N("uploads"), N("24d0753d3f9a228e9b8bbd46ce672dbe"), Jar("carpetInstaller")>>
FABRIC_URL ==
    <<N("https:"), N(""), N("maven.fabricmc.net"), N("net"), N("fabricmc"),
      N("fabric-installer"), N("0.11.0"), Jar("fabric-installer-0.11.0")>>
QUILT_URL ==
    <<N("https:"), N(""), N("maven.quiltmc.org"), N("repository"), N("release"),
      N("org"), N("quiltmc"), N("quilt-installer"), N("latest"),
      Jar("quilt-installer-latest")>>

\* list[i] of Python, 0-based
At(list, i) == list[i + 1]

\* the directory above a path; the root is its own parent
Parent(p) == IF p = <<>> THEN <<>> ELSE SubSeq(p, 1, Len(p) - 1)
\* whether path q lies in directory d
IsUnder(q, d) == Len(q) > Len(d) /\ SubSeq(q, 1, Len(d)) = d

\* the file table with one file written, or removed
Put(f, p, c) == [q \in DOMAIN f \cup {p} |-> IF q = p THEN c ELSE f[q]]
PutAll(f, ps, c) == [q \in DOMAIN f \cup ps |-> IF q \in ps THEN c ELSE f[q]]
\* a variant that leaves the file where it is
DelNothing(f, p) == f
Del(f, p) == [q \in DOMAIN f \ {p} |-> f[q]]

\* line 225: server_file.replace('.jar', '')
\* a variant that replaces the whole name
StripJarWhole(name) == Replace(name, name, <<>>)
StripJar(name) == Replace(name, <<".", "jar">>, <<>>)
\* line 350: file.replace('zip', 'jar')
CarpetJarName(name) == Replace(name, <<"zip">>, <<"jar">>)
\* lines 278, 323, 357: the names the installer-based loaders return
FabricName == N("fabric-server-launch")
QuiltName == N("quilt-server-launch")
CarpetName == N("server")

(***************************************************************************)
(* Text files                                                              *)
(***************************************************************************)
NL == "\n"

\* file.readlines(): the lines, each with its "\n"; a last line may lack it
ReadLines(text) ==
    LET ends == SelectSeq([i \in 1..Len(text) |-> i], LAMBDA i : text[i] = NL)
        n == Len(ends)
        rest == IF n = 0 THEN text ELSE SubSeq(text, ends[n] + 1, Len(text))
        whole == [k \in 1..n |->
                    SubSeq(text, IF k = 1 THEN 1 ELSE ends[k - 1] + 1, ends[k])]
    IN  IF rest = <<>> THEN whole ELSE Append(whole, rest)

\* file.writelines(data): data[lo..hi] one after the other
RECURSIVE Concat(_, _, _)
Concat(data, lo, hi) ==
    IF lo > hi THEN <<>>
    ELSE IF lo = hi THEN data[lo]
    ELSE Concat(data, lo, (lo + hi) \div 2) \o Concat(data, (lo + hi) \div 2 + 1, hi)
WriteLines(data) == Concat(data, 1, Len(data))

\* a variant: data.insert(i, line) in place of data[i] = line
PatchLineInsert(text, i, line) ==
    LET data == ReadLines(text)
    IN  WriteLines(SubSeq(data, 1, i) \o <<line>> \o SubSeq(data, i + 1, Len(data)))

\* data[i] = line raises IndexError when the file has no line i
HasLine(text, i) == i < Len(ReadLines(text))
\* readlines, data[i] = line, writelines
PatchLine(text, i, line) == WriteLines([ReadLines(text) EXCEPT ![i + 1] = line])

\* the line numbers the script writes to
START_COMMAND_LINE == 19
OWNER_LINE == 13
CONSOLE_LINE == 77
EULA_LINE == 2

\* lines 439-445
start_command(jar) == <<"java -Xms1G -Xmx2G -jar ">> \o jar \o <<".", "jar", " nogui">>
\* line 421
StartCommandLine(jar) == <<"start_command: ">> \o start_command(jar) \o <<NL>>
\* line 430
NicknameLine(nickname) == <<"- ">> \o nickname \o <<NL>>
\* lines 475 and 487
ConsoleLine(value) == <<"disable_console_thread: ", value, NL>>
\* line 493
EulaLine == <<"eula=true", NL>>

\* the four writes: lines 419-423, 428-432, 473-477 and 485-489, 491-495
PatchStartCommand(text, jar) == PatchLine(text, START_COMMAND_LINE, StartCommandLine(jar))
PatchOwner(text, nickname) == PatchLine(text, OWNER_LINE, NicknameLine(nickname))
PatchConsole(text, value) == PatchLine(text, CONSOLE_LINE, ConsoleLine(value))
PatchEula(text) == PatchLine(text, EULA_LINE, EulaLine)

\* a generated file of n lines with the given lines at the given numbers
FileOf(n, special) ==
    WriteLines([k \in 1..n |->
        IF k - 1 \in DOMAIN special THEN special[k - 1] ELSE <<"#", ToString(k - 1), NL>>])

\* what `mcdreforged init` writes: config.yml and permission.yml, whose length
\* depends on the MCDReforged release
ConfigYml(n) ==
    FileOf(n, (START_COMMAND_LINE :> <<"start_command: ", "echo Hello world from MCDReforged", NL>>)
              @@ (CONSOLE_LINE :> ConsoleLine("false")))
PermissionYml(n) == FileOf(n, (OWNER_LINE :> <<"- ", "Notch", NL>>))
McdrTemplates ==
    { [cfg |-> CONSOLE_LINE + 1, perm |-> OWNER_LINE + 1],
      [cfg |-> START_COMMAND_LINE + 1, perm |-> OWNER_LINE + 1],
      [cfg |-> START_COMMAND_LINE, perm |-> OWNER_LINE + 1],
      [cfg |-> CONSOLE_LINE + 1, perm |-> OWNER_LINE] }

\* what the server's first start leaves as eula.txt
EulaTxt(n) == FileOf(n, (EULA_LINE :> <<"eula=false", NL>>))
EulaLens == {0, EULA_LINE, EULA_LINE + 1}

\* nicknames typed at the owner prompt
Nicknames == {<<>>, <<"Steve">>}

(***************************************************************************)
(* The remote side                                                         *)
(***************************************************************************)
\* version ids the manifest may list
ManifestIds == {<<"1", ".", "7">>, <<"1", ".", "1", "2">>}
\* loader versions typed at Fabric's second prompt
FabricVersions == {<<>>, <<"1">>, <<"x">>}
\* per-version metadata URLs the manifest may give
MetaUrls == {<<N("meta"), N("a")>>, <<N("meta"), N("b")>>}
ManifestEntries == [id : ManifestIds, url : MetaUrls]
Manifests == UNION {[1..k -> ManifestEntries] : k \in 0..MaxManifest}

\* server download URLs a metadata document may give: the two layouts Mojang
\* has used, and one with fewer than seven segments
ServerUrls ==
    { <<N("https:"), N(""), N("piston-data.mojang.com"), N("v1"), N("objects"),
        N("hash"), Jar("server")>>,
      <<N("https:"), N(""), N("s3.amazonaws.com"), N("Minecraft.Download"),
        N("versions"), N("1.7.2"), Jar("minecraft_server")>>,
      <<N("https:"), N(""), N("example.org"), Jar("server")>> }

(***************************************************************************)
(* State                                                                   *)
(***************************************************************************)
VARIABLES
    pc,            \* where the run is
    exit_code,     \* the process exit code once the run has ended, else -1
    msg,           \* the last warning, error or uncaught exception
    platform,      \* sys.platform
    cwd,           \* the current working directory, a path
    dirs,          \* the directories that exist
    files,         \* the files that exist, path -> content
    MINECRAFT,     \* the global MINECRAFT
    loader,        \* main's loader
    is_mcdr,       \* whether the MCDR flow was chosen
    python,        \* main's python
    jar_name,      \* what loader_setup returned
    minecraft,     \* the loader's local minecraft
    versions_json, \* vanilla_loader's versions_json
    url,           \* vanilla_loader's url
    server_url,    \* vanilla_loader's server_url
    fabric_version,\* fabric_loader's fabric_version
    carpet_name,   \* carpet112_setup's carpet_name
    net,           \* the URLs requested so far, in order
    installs,      \* how many times an installer jar was run
    cwd_call,      \* the working directory when loader_setup was called
    probe          \* what a specification of one function alone applies it to

ctrl == <<pc, exit_code, msg>>
fsys == <<cwd, dirs, files>>
glob == <<platform, MINECRAFT, loader, is_mcdr, python, jar_name>>
locs == <<minecraft, versions_json, url, server_url, fabric_version, carpet_name>>
logs == <<net, installs, cwd_call>>
vars == <<ctrl, fsys, glob, locs, logs, probe>>

\* sys.exit(code) after logging m
Exit(code, m) == pc' = "exited" /\ exit_code' = code /\ msg' = m
\* an exception nothing catches: the interpreter prints it and exits 1
Crash(e) == pc' = "crashed" /\ exit_code' = 1 /\ msg' = e
Goto(p) == pc' = p /\ UNCHANGED <<exit_code, msg>>
Warn(p, m) == pc' = p /\ msg' = m /\ UNCHANGED exit_code

FOLDER == N("minecraft_server")
SERVER == N("server")

CONFIG == <<"config", ".", "yml">>
PERMISSION == <<"permission", ".", "yml">>
EULA == <<"eula", ".", "txt">>
START_BAT == <<"start", ".", "bat">>
START_SH == <<"start", ".", "sh">>

Init ==
    /\ pc = "check_environment"
    /\ exit_code = -1
    /\ msg = ""
    /\ platform \in {"win32", "linux", "darwin"}
    /\ cwd = <<>>
    /\ dirs \in {{<<>>}, {<<>>, <<FOLDER>>}}
    /\ files = <<>>
    /\ MINECRAFT = <<>>
    /\ loader = 0
    /\ is_mcdr = FALSE
    /\ python = ""
    /\ jar_name = <<>>
    /\ minecraft = <<>>
    /\ versions_json = <<>>
    /\ url = <<>>
    /\ server_url = <<>>
    /\ fabric_version = <<>>
    /\ carpet_name = <<>>
    /\ net = <<>>
    /\ installs = 0
    /\ cwd_call = <<>>
    /\ probe = <<>>

(***************************************************************************)
(* main, up to the loader                                                  *)
(***************************************************************************)
\* lines 94-128
CheckEnvironment ==
    /\ pc = "check_environment"
    /\ \E py_ok \in BOOLEAN, java \in {"ok", "missing", "fails"},
          mcdr \in {"present", "installs", "fails"} :
        IF platform \notin {"win32", "linux"} THEN Exit(0, "unsupported_os") /\ UNCHANGED python
        ELSE IF ~py_ok THEN Exit(0, "python_needed") /\ UNCHANGED python
        ELSE IF java = "missing" THEN Exit(0, "java_needed") /\ UNCHANGED python
        ELSE IF java = "fails" \/ mcdr = "fails"
        THEN Exit(1, "subprocess_failed") /\ UNCHANGED python
        ELSE /\ python' = (IF platform = "win32" THEN "python" ELSE "python3")
             /\ Goto("mk_folder")
    /\ UNCHANGED <<fsys, platform, MINECRAFT, loader, is_mcdr, jar_name, locs, logs, probe>>

\* lines 153-174
MkFolder ==
    /\ pc = "mk_folder"
    /\ \E ok \in BOOLEAN :
        IF <<FOLDER>> \in dirs THEN Exit(0, "folder_exists") /\ UNCHANGED <<cwd, dirs>>
        ELSE IF ~ok THEN Exit(1, "OSError") /\ UNCHANGED <<cwd, dirs>>
        ELSE /\ dirs' = dirs \cup {<<FOLDER>>}
             /\ cwd' = <<FOLDER>>
             /\ Goto("server_loader")
    /\ UNCHANGED <<files, glob, locs, logs, probe>>

\* lines 517-529: the loader an option stands for, 5 to close, 0 to ask again
LoaderOf(option) ==
    CASE option \in {"1", "vanilla"} -> 1
      [] option \in {"2", "fabric"} -> 2
      [] option \in {"3", "quilt"} -> 3
      [] option \in {"4", "carpet112"} -> 4
      [] option \in {"5", "exit"} -> 5
      [] OTHER -> 0
Options == {"1", "vanilla", "2", "fabric", "3", "quilt", "4", "carpet112", "5", "exit",
            "", "forge", "paper", "6"}

\* lines 503-529
ServerLoader ==
    /\ pc = "server_loader"
    /\ \E option \in Options :
        LET n == LoaderOf(option)
        IN  IF n = 5 THEN Exit(0, "closing") /\ UNCHANGED loader
            ELSE IF n = 0 THEN Warn("server_loader", "not_an_option") /\ UNCHANGED loader
            ELSE loader' = n /\ Goto("ask_mcdr")
    /\ UNCHANGED <<fsys, platform, MINECRAFT, is_mcdr, python, jar_name, locs, logs, probe>>

\* lines 138-150, default_no = True: "yes", "no", or "again"
SimpleYesNo(ans) ==
    LET first == SubSeq(ans, 1, IF Len(ans) < 1 THEN Len(ans) ELSE 1)
    IN  CASE first = <<>> -> "no"
          [] first = <<"y">> -> "yes"
          [] first = <<"n">> -> "no"
          [] OTHER -> "again"
Answers == {<<>>, <<"y">>, <<"y", "e", "s">>, <<"n">>, <<"n", "o">>, <<"m">>}

\* line 538
AskMcdr ==
    /\ pc = "ask_mcdr"
    /\ \E ans \in Answers :
        LET r == SimpleYesNo(ans)
        IN  IF r = "again" THEN Warn("ask_mcdr", "invalid_answer") /\ UNCHANGED is_mcdr
            ELSE /\ is_mcdr' = (r = "yes")
                 /\ Goto(IF r = "yes" THEN "mcdr_init" ELSE "loader_setup")
    /\ UNCHANGED <<fsys, platform, MINECRAFT, loader, python, jar_name, locs, logs, probe>>

(***************************************************************************)
(* mcdr_setup                                                              *)
(***************************************************************************)
\* lines 414-415: `mcdreforged init`, then enter ./server
McdrInit ==
    /\ pc = "mcdr_init"
    /\ \E rc \in {0, 1}, t \in McdrTemplates :
        IF rc # 0 THEN Exit(1, "subprocess_failed") /\ UNCHANGED fsys
        ELSE /\ dirs' = dirs \cup {Append(cwd, SERVER)}
             /\ files' = Put(Put(files, Append(cwd, CONFIG), ConfigYml(t.cfg)),
                             Append(cwd, PERMISSION), PermissionYml(t.perm))
             /\ cwd' = Append(cwd, SERVER)
             /\ Goto("loader_setup")
    /\ UNCHANGED <<glob, locs, logs, probe>>

\* lines 417-423: back out of the loader's directory, write the start command
McdrConfig ==
    /\ pc = "mcdr_back"
    /\ cwd' = Parent(cwd)
    /\ LET path == Append(cwd', CONFIG)
       IN  IF path \notin DOMAIN files THEN Exit(1, "FileNotFoundError") /\ UNCHANGED files
           ELSE IF ~HasLine(files[path], START_COMMAND_LINE)
           THEN Crash("IndexError") /\ UNCHANGED files
           ELSE /\ files' = Put(files, path, PatchStartCommand(files[path], jar_name))
                /\ Goto("mcdr_nickname")
    /\ UNCHANGED <<dirs, glob, locs, logs, probe>>

\* lines 424-433: the owner's nickname
McdrNickname ==
    /\ pc = "mcdr_nickname"
    /\ \E nickname \in Nicknames :
        LET path == Append(cwd, PERMISSION)
        IN  IF nickname = <<>> THEN Goto("post_setup") /\ UNCHANGED files
            ELSE IF path \notin DOMAIN files
            THEN Exit(1, "FileNotFoundError") /\ UNCHANGED files
            ELSE IF ~HasLine(files[path], OWNER_LINE)
            THEN Crash("IndexError") /\ UNCHANGED files
            ELSE /\ files' = Put(files, path, PatchOwner(files[path], nickname))
                 /\ Goto("post_setup")
    /\ UNCHANGED <<cwd, dirs, glob, locs, logs, probe>>

(***************************************************************************)
(* post_setup                                                              *)
(***************************************************************************)
\* lines 456-459 and 386-403: the two launch scripts
LaunchScripts ==
    /\ pc = "post_setup"
    /\ LET cmd == IF is_mcdr THEN <<python, " -m mcdreforged start">>
                  ELSE start_command(jar_name)
       IN  files' = Put(Put(files, Append(cwd, START_BAT), <<"@echo off", NL>> \o cmd \o <<NL>>),
                        Append(cwd, START_SH), <<"#!\\bin\\bash", NL>> \o cmd \o <<NL>>)
    /\ \E rc \in {0, 1} :
        IF platform = "linux" /\ rc # 0 THEN Exit(1, "subprocess_failed")
        ELSE Goto("post_filter")
    /\ UNCHANGED <<cwd, dirs, glob, locs, logs, probe>>

\* lines 461-463: the version filter, on the split MINECRAFT
EulaMajor(tmp) == IntVal(At(tmp, 1))
EulaMinor(tmp) == IF Len(tmp) = 3 THEN IntVal(At(tmp, 2)) ELSE 0
\* a variant that looks at the major number only
EulaIsInvalidMajor(tmp) == EulaMajor(tmp) < 7
EulaIsInvalid(tmp) == EulaMajor(tmp) < 7 \/ (EulaMajor(tmp) = 7 /\ EulaMinor(tmp) < 10)

\* main's last lines, 544-545
ScriptDone(m) == pc' = "done" /\ exit_code' = 0 /\ msg' = m

\* lines 461-466
VersionFilter ==
    /\ pc = "post_filter"
    /\ LET tmp == Split(MINECRAFT, ".")
       IN  IF Len(tmp) < 2 THEN Crash("IndexError")
           ELSE IF ~IsInt(At(tmp, 1)) \/ (Len(tmp) = 3 /\ ~IsInt(At(tmp, 2)))
           THEN Crash("ValueError")
           ELSE IF EulaIsInvalid(tmp) THEN ScriptDone("no_eula")
           ELSE Goto("post_ask")
    /\ UNCHANGED <<fsys, glob, locs, logs, probe>>

\* lines 468-477: the question, and in the MCDR flow the console thread off
PostAsk ==
    /\ pc = "post_ask"
    /\ \E ans \in Answers :
        LET r == SimpleYesNo(ans)
            path == Append(cwd, CONFIG)
        IN  IF r = "again" THEN Warn("post_ask", "invalid_answer") /\ UNCHANGED files
            ELSE IF r = "no" THEN ScriptDone("script_done") /\ UNCHANGED files
            ELSE IF ~is_mcdr THEN Warn("post_start", "starting_first_time") /\ UNCHANGED files
            ELSE IF path \notin DOMAIN files
            THEN Exit(1, "FileNotFoundError") /\ UNCHANGED files
            ELSE IF ~HasLine(files[path], CONSOLE_LINE)
            THEN Crash("IndexError") /\ UNCHANGED files
            ELSE /\ files' = Put(files, path, PatchConsole(files[path], "true"))
                 /\ Warn("post_start", "starting_first_time")
    /\ UNCHANGED <<cwd, dirs, glob, locs, logs, probe>>

\* where the server that start.sh launches runs
ServerDir == IF is_mcdr THEN Append(cwd, SERVER) ELSE cwd

\* lines 478-490: the first start, and in the MCDR flow the console thread
\* back on and into ./server
PostStart ==
    /\ pc = "post_start"
    /\ \E rc \in {0, 1}, n \in EulaLens :
        LET started == IF n = 0 THEN files
                       ELSE Put(files, Append(ServerDir, EULA), EulaTxt(n))
            path == Append(cwd, CONFIG)
        IN  IF rc # 0 THEN Exit(1, "subprocess_failed") /\ UNCHANGED <<cwd, files>>
            ELSE IF ~is_mcdr THEN files' = started /\ Warn("post_eula", "first_start_complete") /\ UNCHANGED cwd
            ELSE IF path \notin DOMAIN started
            THEN files' = started /\ Exit(1, "FileNotFoundError") /\ UNCHANGED cwd
            ELSE IF ~HasLine(started[path], CONSOLE_LINE)
            THEN files' = started /\ Crash("IndexError") /\ UNCHANGED cwd
            ELSE /\ files' = Put(started, path, PatchConsole(started[path], "false"))
                 /\ IF Append(cwd, SERVER) \in dirs
                    THEN cwd' = Append(cwd, SERVER) /\ Warn("post_eula", "first_start_complete")
                    ELSE Exit(1, "FileNotFoundError") /\ UNCHANGED cwd
    /\ UNCHANGED <<dirs, glob, locs, logs, probe>>

\* lines 491-500: eula.txt
PostEula ==
    /\ pc = "post_eula"
    /\ LET path == Append(cwd, EULA)
       IN  IF path \notin DOMAIN files THEN Exit(1, "FileNotFoundError") /\ UNCHANGED files
           ELSE IF ~HasLine(files[path], EULA_LINE) THEN Crash("IndexError") /\ UNCHANGED files
           ELSE /\ files' = Put(files, path, PatchEula(files[path]))
                /\ ScriptDone("script_done")
    /\ UNCHANGED <<cwd, dirs, glob, locs, logs, probe>>

(***************************************************************************)
(* vanilla_loader                                                          *)
(***************************************************************************)
\* lines 196-198: the version filter, on the split input
VanillaMajor(tmp) == IntVal(At(tmp, 1))
VanillaMinor(tmp) == IF Len(tmp) = 3 THEN IntVal(At(tmp, 2)) ELSE 0
VanillaIsInvalid(tmp) ==
    VanillaMajor(tmp) < 2 \/ (VanillaMajor(tmp) = 2 /\ VanillaMinor(tmp) < 5)

\* lines 193-204 and 229-230: one pass of the prompt loop up to the first
\* network call; a rejected text is asked again and not read again
VanillaPrompt(typed) ==
    /\ pc = "vanilla_prompt"
    /\ \E inp \in typed :
        LET m == Strip(inp)
            tmp == Split(m, ".")
        IN  IF Len(tmp) < 2
            THEN minecraft' = m /\ Crash("IndexError")
            ELSE IF ~IsInt(At(tmp, 1)) \/ (Len(tmp) = 3 /\ ~IsInt(At(tmp, 2)))
            THEN minecraft' = m /\ Crash("ValueError")
            ELSE IF VanillaIsInvalid(tmp)
            THEN minecraft' = m /\ Exit(1, "unsupported_version")
            ELSE IF MatchDigitDot(m) \/ m = <<>>
            THEN minecraft' = m /\ Warn("vanilla_manifest", "version_selected")
            ELSE UNCHANGED minecraft /\ Warn("vanilla_prompt", "invalid_characters")
    /\ UNCHANGED <<fsys, glob, versions_json, url, server_url, fabric_version,
                   carpet_name, logs, probe>>

\* the return statement of a loader, back in mcdr_setup or in main
LoaderReturn(name) ==
    /\ jar_name' = name
    /\ Warn(IF is_mcdr THEN "mcdr_back" ELSE "post_setup", "installation_complete")

\* lines 212-215: the url of the first entry whose id is the request, '' if none
RECURSIVE ScanFrom(_, _, _)
ScanFrom(versions, m, i) ==
    IF i > Len(versions) THEN <<>>
    ELSE IF versions[i].id = m THEN versions[i].url
    ELSE ScanFrom(versions, m, i + 1)
\* a variant without the break: the last matching entry wins
RECURSIVE ScanLastFrom(_, _, _)
ScanLastFrom(versions, m, i) ==
    IF i < 1 THEN <<>>
    ELSE IF versions[i].id = m THEN versions[i].url
    ELSE ScanLastFrom(versions, m, i - 1)
VanillaScanLast(versions, m) == ScanLastFrom(versions, m, Len(versions))
VanillaScan(versions, m) == ScanFrom(versions, m, 1)

\* lines 206-215: fetch the manifest, resolve an empty request, scan
VanillaManifest ==
    /\ pc = "vanilla_manifest"
    /\ \E err \in {"", "URLError"}, resp \in Manifests :
        IF err # ""
        THEN /\ Crash("URLError")
             /\ net' = Append(net, MOJANG_VERSIONS_MANIFEST)
             /\ UNCHANGED <<minecraft, versions_json, url>>
        ELSE IF minecraft = <<>>
        THEN \E err2 \in {"", "URLError"}, rel \in ManifestIds :
               /\ net' = net \o <<MOJANG_VERSIONS_MANIFEST, MOJANG_VERSIONS_MANIFEST>>
               /\ versions_json' = resp
               /\ IF err2 # ""
                  THEN Crash("URLError") /\ UNCHANGED <<minecraft, url>>
                  ELSE /\ minecraft' = rel
                       /\ url' = VanillaScan(resp, rel)
                       /\ Goto("vanilla_meta")
        ELSE /\ net' = Append(net, MOJANG_VERSIONS_MANIFEST)
             /\ versions_json' = resp
             /\ url' = VanillaScan(resp, minecraft)
             /\ Goto("vanilla_meta")
             /\ UNCHANGED minecraft
    /\ UNCHANGED <<fsys, glob, server_url, fabric_version, carpet_name, installs, cwd_call, probe>>

\* lines 216-219: fetch the version's metadata document, take the server url
VanillaMeta ==
    /\ pc = "vanilla_meta"
    /\ IF url = <<>>
       THEN Crash("ValueError") /\ UNCHANGED <<net, server_url>>
       ELSE /\ net' = Append(net, url)
            /\ \E err \in {"", "URLError", "KeyError"}, resp \in ServerUrls :
                IF err # ""
                THEN Crash(err) /\ UNCHANGED server_url
                ELSE /\ server_url' = resp
                     /\ IF Len(resp) < 7 THEN Crash("IndexError")
                        ELSE Goto("vanilla_download")
    /\ UNCHANGED <<fsys, glob, minecraft, versions_json, url, fabric_version,
                   carpet_name, installs, cwd_call, probe>>

\* lines 220-228: download the server jar, set MINECRAFT, return the name
VanillaDownload ==
    /\ pc = "vanilla_download"
    /\ net' = Append(net, server_url)
    /\ LET server_file == At(server_url, 6)
       IN \E ok \in BOOLEAN :
            IF ok
            THEN /\ files' = Put(files, Append(cwd, server_file), <<"bytes">>)
                 /\ MINECRAFT' = minecraft
                 /\ LoaderReturn(StripJar(server_file))
            ELSE /\ Exit(1, "RequestException")
                 /\ UNCHANGED <<files, MINECRAFT, jar_name>>
    /\ UNCHANGED <<cwd, dirs, platform, loader, is_mcdr, python, locs, installs, cwd_call, probe>>

(***************************************************************************)
(* fabric_loader                                                           *)
(***************************************************************************)
FabricInstaller == At(FABRIC_URL, 7)

\* lines 239-244: download the installer jar into the working directory
FabricDownload ==
    /\ pc = "fabric_download"
    /\ net' = Append(net, FABRIC_URL)
    /\ \E ok \in BOOLEAN :
        IF ok
        THEN /\ files' = Put(files, Append(cwd, FabricInstaller), <<"bytes">>)
             /\ Goto("fabric_prompt")
        ELSE Exit(1, "RequestException") /\ UNCHANGED files
    /\ UNCHANGED <<cwd, dirs, glob, locs, installs, cwd_call, probe>>

\* lines 245-257: one pass of the prompt loop; a rejected pair is asked again
\* and not read again
FabricPrompt(typed) ==
    /\ pc = "fabric_prompt"
    /\ \E mc \in typed, fv \in FabricVersions :
        LET m == Strip(mc)
            f == Strip(fv)
        IN  IF (m # <<>> /\ MatchNotDigitDot(m)) \/ (f # <<>> /\ MatchNotDigitDot(f))
            THEN /\ Warn("fabric_prompt", "invalid_characters")
                 /\ UNCHANGED <<minecraft, fabric_version>>
            ELSE /\ minecraft' = m
                 /\ fabric_version' = f
                 /\ Warn("fabric_install", "version_selected")
    /\ UNCHANGED <<fsys, glob, versions_json, url, server_url, carpet_name, logs, probe>>

\* lines 262-278: run the installer, remove it, set MINECRAFT, return
FabricInstall ==
    /\ pc = "fabric_install"
    /\ installs' = installs + 1
    /\ \E rc \in {0, 1} :
        IF rc # 0
        THEN /\ Exit(1, "subprocess_failed")
             /\ UNCHANGED <<files, MINECRAFT, jar_name>>
        ELSE /\ files' = Del(Put(Put(files, Append(cwd, Jar("fabric-server-launch")), <<"bytes">>),
                                 Append(cwd, Jar("server")), <<"bytes">>),
                             Append(cwd, FabricInstaller))
             /\ MINECRAFT' = minecraft
             /\ LoaderReturn(FabricName)
    /\ UNCHANGED <<cwd, dirs, platform, loader, is_mcdr, python, locs, net, cwd_call, probe>>

(***************************************************************************)
(* quilt_loader                                                            *)
(***************************************************************************)
QuiltInstaller == At(QUILT_URL, 9)

\* lines 293-299: leave the directory, download the installer jar
QuiltDownload ==
    /\ pc = "quilt_download"
    /\ cwd' = Parent(cwd)
    /\ net' = Append(net, QUILT_URL)
    /\ \E ok \in BOOLEAN :
        IF ok
        THEN /\ files' = Put(files, Append(cwd', QuiltInstaller), <<"bytes">>)
             /\ Goto("quilt_prompt")
        ELSE Exit(1, "RequestException") /\ UNCHANGED files
    /\ UNCHANGED <<dirs, glob, locs, installs, cwd_call, probe>>

\* lines 300-311: one pass of the prompt loop
QuiltPrompt(typed) ==
    /\ pc = "quilt_prompt"
    /\ \E mc \in typed :
        LET m == Strip(mc)
        IN  IF m # <<>> /\ MatchNotDigitDot(m)
            THEN /\ Warn("quilt_prompt", "invalid_characters")
                 /\ UNCHANGED minecraft
            ELSE /\ minecraft' = m
                 /\ Warn(IF m = <<>> THEN "quilt_latest" ELSE "quilt_install",
                         "version_selected")
    /\ UNCHANGED <<fsys, glob, versions_json, url, server_url, fabric_version,
                   carpet_name, logs, probe>>

\* lines 177-183 called from line 312: get_last_release()
QuiltLatest ==
    /\ pc = "quilt_latest"
    /\ net' = Append(net, MOJANG_VERSIONS_MANIFEST)
    /\ \E err \in {"", "URLError"}, rel \in ManifestIds :
        IF err # ""
        THEN Crash("URLError") /\ UNCHANGED minecraft
        ELSE minecraft' = rel /\ Goto("quilt_install")
    /\ UNCHANGED <<fsys, glob, versions_json, url, server_url, fabric_version,
                   carpet_name, installs, cwd_call, probe>>

\* lines 313-323: run the installer until ./server/server.jar is there, then
\* remove the installer, enter ./server, set MINECRAFT, return
QuiltInstall ==
    /\ pc = "quilt_install"
    /\ installs < MaxInstalls
    /\ installs' = installs + 1
    /\ \E rc \in {0, 1}, made \in BOOLEAN :
        LET dir == Append(cwd, SERVER)
            jar == Append(dir, Jar("server"))
        IN  IF rc # 0
            THEN /\ Exit(1, "subprocess_failed")
                 /\ UNCHANGED <<fsys, MINECRAFT, jar_name>>
            ELSE IF made \/ jar \in DOMAIN files
            THEN /\ dirs' = dirs \cup {dir}
                 /\ files' = Del(Put(Put(files, jar, <<"bytes">>),
                                     Append(dir, Jar("quilt-server-launch")), <<"bytes">>),
                                 Append(cwd, QuiltInstaller))
                 /\ cwd' = dir
                 /\ MINECRAFT' = minecraft
                 /\ LoaderReturn(QuiltName)
            ELSE /\ Warn("quilt_install", "reinstalling")
                 /\ UNCHANGED <<fsys, MINECRAFT, jar_name>>
    /\ UNCHANGED <<platform, loader, is_mcdr, python, locs, net, cwd_call, probe>>

(***************************************************************************)
(* carpet112_setup                                                         *)
(***************************************************************************)
CarpetInstaller == At(CARPET_112, 7)
UPDATE == N("update")
\* what the installer may leave in ./update
UpdateNames == {Zip("carpet"), Jar("carpet"), Zip("other")}

\* lines 338-344: set MINECRAFT, download the installer jar
CarpetDownload ==
    /\ pc = "carpet_download"
    /\ MINECRAFT' = <<"1", ".", "1", "2", ".", "2">>
    /\ net' = Append(net, CARPET_112)
    /\ \E ok \in BOOLEAN :
        IF ok
        THEN /\ files' = Put(files, Append(cwd, CarpetInstaller), <<"bytes">>)
             /\ Goto("carpet_install")
        ELSE Exit(1, "RequestException") /\ UNCHANGED files
    /\ UNCHANGED <<cwd, dirs, platform, loader, is_mcdr, python, jar_name, locs,
                   installs, cwd_call, probe>>

\* line 345: run the installer, which may fill ./update
CarpetInstall ==
    /\ pc = "carpet_install"
    /\ installs' = installs + 1
    /\ \E rc \in {0, 1}, made \in BOOLEAN, out \in SUBSET UpdateNames :
        LET dir == Append(cwd, UPDATE)
        IN  IF rc # 0
            THEN Exit(1, "subprocess_failed") /\ UNCHANGED <<dirs, files>>
            ELSE IF ~made
            THEN Goto("carpet_collect") /\ UNCHANGED <<dirs, files>>
            ELSE /\ dirs' = dirs \cup {dir}
                 /\ files' = PutAll(files, {Append(dir, n) : n \in out}, <<"bytes">>)
                 /\ Goto("carpet_collect")
    /\ UNCHANGED <<cwd, glob, locs, net, cwd_call, probe>>

\* lines 346-363: enter ./update, take the name of a zip, move it up, rename
\* it to server.jar, remove the installer and ./update
CarpetCollect ==
    /\ pc = "carpet_collect"
    /\ LET dir == Append(cwd, UPDATE)
           listed == {n \in UpdateNames : Append(dir, n) \in DOMAIN files}
           zips == {n \in listed : EndsWith(n, <<".", "zip">>)}
       IN  IF dir \notin dirs
           THEN /\ Exit(1, "OSError")
                /\ UNCHANGED <<fsys, jar_name, carpet_name>>
           ELSE \E last \in (IF zips = {} THEN {<<>>} ELSE zips) :
                 LET name == IF last = <<>> THEN <<>> ELSE CarpetJarName(last)
                 IN  /\ carpet_name' = name
                     /\ IF \/ name = <<>>
                           \/ Append(dir, name) \notin DOMAIN files
                           \/ Append(cwd, name) \in DOMAIN files
                        THEN /\ Exit(1, "OSError")
                             /\ cwd' = dir
                             /\ UNCHANGED <<dirs, files, jar_name>>
                        ELSE /\ files' =
                                  LET moved == Put(files, Append(cwd, Jar("server")),
                                                   files[Append(dir, name)])
                                  IN  [p \in {q \in DOMAIN moved :
                                                /\ ~IsUnder(q, dir)
                                                /\ q # Append(cwd, CarpetInstaller)}
                                        |-> moved[p]]
                             /\ dirs' = dirs \ {dir}
                             /\ UNCHANGED cwd
                             /\ LoaderReturn(CarpetName)
    /\ UNCHANGED <<platform, MINECRAFT, loader, is_mcdr, python, minecraft, versions_json,
                   url, server_url, fabric_version, logs, probe>>

(***************************************************************************)
(* loader_setup                                                            *)
(***************************************************************************)
\* a variant whose default case runs the vanilla loader
DispatchDefault(l) ==
    CASE l = 2 -> "fabric_download"
      [] l = 3 -> "quilt_download"
      [] l = 4 -> "carpet_download"
      [] OTHER -> "vanilla_prompt"
\* lines 372-383: where each loader number leads, "" for the default case
Dispatch(l) ==
    CASE l = 1 -> "vanilla_prompt"
      [] l = 2 -> "fabric_download"
      [] l = 3 -> "quilt_download"
      [] l = 4 -> "carpet_download"
      [] OTHER -> ""

\* lines 372-383
LoaderSetup ==
    /\ pc = "loader_setup"
    /\ cwd_call' = cwd
    /\ IF Dispatch(loader) = "" THEN Exit(1, "invalid_loader")
       ELSE Goto(Dispatch(loader))
    /\ UNCHANGED <<fsys, glob, locs, net, installs, probe>>

Next ==
    \/ CheckEnvironment
    \/ MkFolder
    \/ ServerLoader
    \/ AskMcdr
    \/ McdrInit
    \/ McdrConfig
    \/ McdrNickname
    \/ LaunchScripts
    \/ VersionFilter
    \/ PostAsk
    \/ PostStart
    \/ PostEula
    \/ LoaderSetup
    \/ VanillaPrompt(Inputs(MaxRunLen))
    \/ VanillaManifest
    \/ VanillaMeta
    \/ VanillaDownload
    \/ FabricDownload
    \/ FabricPrompt(Inputs(MaxRunLen))
    \/ FabricInstall
    \/ QuiltDownload
    \/ QuiltPrompt(Inputs(MaxRunLen))
    \/ QuiltLatest
    \/ QuiltInstall
    \/ CarpetDownload
    \/ CarpetInstall
    \/ CarpetCollect

Spec == Init /\ [][Next]_vars

(***************************************************************************)
(* loader_setup alone                                                      *)
(***************************************************************************)
\* the states in which main (line 542) and mcdr_setup (line 416) call
\* loader_setup on Linux
LoaderCall(values) ==
    /\ pc = "loader_setup"
    /\ exit_code = -1
    /\ msg = ""
    /\ platform = "linux"
    /\ is_mcdr \in BOOLEAN
    /\ cwd = (IF is_mcdr THEN <<FOLDER, SERVER>> ELSE <<FOLDER>>)
    /\ dirs = (IF is_mcdr THEN {<<>>, <<FOLDER>>, <<FOLDER, SERVER>>} ELSE {<<>>, <<FOLDER>>})
    /\ files = (IF is_mcdr
                THEN Put(Put(<<>>, <<FOLDER, CONFIG>>, ConfigYml(CONSOLE_LINE + 1)),
                         <<FOLDER, PERMISSION>>, PermissionYml(OWNER_LINE + 1))
                ELSE <<>>)
    /\ MINECRAFT = <<>>
    /\ loader \in values
    /\ python = "python3"
    /\ jar_name = <<>>
    /\ minecraft = <<>>
    /\ versions_json = <<>>
    /\ url = <<>>
    /\ server_url = <<>>
    /\ fabric_version = <<>>
    /\ carpet_name = <<>>
    /\ net = <<>>
    /\ installs = 0
    /\ cwd_call = <<>>
    /\ probe = <<>>

InitLoader == LoaderCall(1..4)

NextLoader ==
    \/ LoaderSetup
    \/ VanillaPrompt(Inputs(MaxLen))
    \/ VanillaManifest
    \/ VanillaMeta
    \/ VanillaDownload
    \/ FabricDownload
    \/ FabricPrompt(Inputs(MaxLen))
    \/ FabricInstall
    \/ QuiltDownload
    \/ QuiltPrompt(Inputs(MaxLen))
    \/ QuiltLatest
    \/ QuiltInstall
    \/ CarpetDownload
    \/ CarpetInstall
    \/ CarpetCollect

SpecLoader == InitLoader /\ [][NextLoader]_vars

\* loader_setup called with any number, the four of server_loader's menu and
\* others
InitDispatch == LoaderCall(0..7)

SpecDispatch == InitDispatch /\ [][NextLoader]_vars
(***************************************************************************)
(* script.py, the earlier revision: server_loader and its two loaders      *)
(***************************************************************************)
\* script.py line 178
SCRIPT_MANIFEST == <<N("https:"), <<>>, N("launchermeta.mojang.com"), N("mc"), N("game"),
                     N("version"), <<"version_manifest_v2", ".", "json">>>>
\* script.py line 205
SCRIPT_FABRIC_URL == <<N("https:"), <<>>, N("maven.fabricmc.net"), N("net"), N("fabricmc"),
                       N("fabric-installer"), N("0.10.2"),
                       <<"fabric-installer-0", ".", "10", ".", "2", ".", "jar">>>>
ScriptFabricInstaller == At(SCRIPT_FABRIC_URL, 7)

\* script.py reads a version as typed and only compares it with the ids of
\* the manifest: each id, the empty text and a version no manifest lists
ScriptTyped == ManifestIds \cup {<<>>, <<"1", ".", "1">>}

\* what is typed at "Select a option": int() fails on the last one
ScriptOptions == {"1", "2", "3", "4", "x"}

\* the return statement of a loader of script.py
ScriptReturn(name) ==
    /\ jar_name' = name
    /\ Warn("script_returned", "download_complete")

\* script.py lines 248-271: one pass of the option loop
ScriptServerLoader ==
    /\ pc = "script_server_loader"
    /\ cwd_call' = cwd
    /\ \E option \in ScriptOptions :
        CASE option = "1" -> loader' = 1 /\ Goto("script_vanilla_manifest")
          [] option = "2" -> loader' = 2 /\ Goto("script_fabric_download")
          [] option = "3" -> Exit(0, "closing_program") /\ UNCHANGED loader
          [] option = "x" -> Warn("script_server_loader", "invalid_option") /\ UNCHANGED loader
          [] OTHER -> Goto("script_server_loader") /\ UNCHANGED loader
    /\ UNCHANGED <<fsys, platform, MINECRAFT, is_mcdr, python, jar_name, locs, net,
                   installs, probe>>

\* script.py lines 178-181: fetch the manifest, before the prompt
ScriptVanillaManifest ==
    /\ pc = "script_vanilla_manifest"
    /\ url' = SCRIPT_MANIFEST
    /\ net' = Append(net, SCRIPT_MANIFEST)
    /\ \E err \in {"", "URLError"}, resp \in Manifests :
        IF err # ""
        THEN Crash("URLError") /\ UNCHANGED versions_json
        ELSE versions_json' = resp /\ Goto("script_vanilla_prompt")
    /\ UNCHANGED <<fsys, glob, minecraft, server_url, fabric_version, carpet_name,
                   installs, cwd_call, probe>>

\* script.py lines 186-190: the scan assigns url only on a match
ScriptScan(versions, m, old) ==
    IF \E i \in 1..Len(versions) : versions[i].id = m
    THEN VanillaScan(versions, m)
    ELSE old

\* script.py lines 182-190: read the request, scan the manifest
ScriptVanillaPrompt(typed) ==
    /\ pc = "script_vanilla_prompt"
    /\ Len(net) < MaxRequests
    /\ \E mc \in typed :
        /\ minecraft' = mc
        /\ url' = ScriptScan(versions_json, mc, url)
    /\ Warn("script_vanilla_meta", "option_selected")
    /\ UNCHANGED <<fsys, glob, versions_json, server_url, fabric_version, carpet_name,
                   logs, probe>>

\* script.py lines 191-194: open url, read the server url out of the answer;
\* the manifest has no 'downloads' key
ScriptVanillaMeta ==
    /\ pc = "script_vanilla_meta"
    /\ net' = Append(net, url)
    /\ \E err \in {"", "URLError", "KeyError"}, resp \in ServerUrls :
        IF err # ""
        THEN Crash(err) /\ UNCHANGED server_url
        ELSE IF url = SCRIPT_MANIFEST
        THEN Crash("KeyError") /\ UNCHANGED server_url
        ELSE /\ server_url' = resp
             /\ IF Len(resp) < 7 THEN Crash("IndexError")
                ELSE Goto("script_vanilla_download")
    /\ UNCHANGED <<fsys, glob, minecraft, versions_json, url, fabric_version,
                   carpet_name, installs, cwd_call, probe>>

\* script.py lines 195-200: download the server jar and return its name; a
\* failed request is reported and the loop asks again, url as it is
ScriptVanillaDownload ==
    /\ pc = "script_vanilla_download"
    /\ net' = Append(net, server_url)
    /\ LET server_file == At(server_url, 6)
       IN \E ok \in BOOLEAN :
            IF ok
            THEN /\ files' = Put(files, Append(cwd, server_file), <<"bytes">>)
                 /\ ScriptReturn(server_file)
                 /\ UNCHANGED <<minecraft, server_url>>
            ELSE /\ Warn("script_vanilla_prompt", "RequestException")
                 /\ minecraft' = <<>>
                 /\ server_url' = <<>>
                 /\ UNCHANGED <<files, jar_name>>
    /\ UNCHANGED <<cwd, dirs, platform, MINECRAFT, loader, is_mcdr, python, versions_json,
                   url, fabric_version, carpet_name, installs, cwd_call, probe>>

\* script.py lines 204-213: check java, download the installer jar
ScriptFabricDownload ==
    /\ pc = "script_fabric_download"
    /\ \E java \in BOOLEAN, ok \in BOOLEAN :
        IF ~java
        THEN Exit(1, "FileNotFoundError") /\ UNCHANGED <<files, net>>
        ELSE /\ net' = Append(net, SCRIPT_FABRIC_URL)
             /\ IF ok
                THEN /\ files' = Put(files, Append(cwd, ScriptFabricInstaller), <<"bytes">>)
                     /\ Goto("script_fabric_prompt")
                ELSE Exit(1, "RequestException") /\ UNCHANGED files
    /\ UNCHANGED <<cwd, dirs, glob, locs, installs, cwd_call, probe>>

\* script.py lines 216-222: the two versions, taken as typed
ScriptFabricPrompt(typed) ==
    /\ pc = "script_fabric_prompt"
    /\ \E mc \in typed, fabric \in FabricVersions :
        /\ minecraft' = mc
        /\ fabric_version' = fabric
    /\ Warn("script_fabric_install", "option_selected")
    /\ UNCHANGED <<fsys, glob, versions_json, url, server_url, carpet_name, logs, probe>>

\* script.py lines 223-245: run the installer; when it fails the loop asks
\* for the versions again and runs it again
ScriptFabricInstall ==
    /\ pc = "script_fabric_install"
    /\ installs < MaxInstalls
    /\ installs' = installs + 1
    /\ \E rc \in {0, 1} :
        IF rc # 0
        THEN /\ Warn("script_fabric_prompt", "CalledProcessError")
             /\ minecraft' = <<>>
             /\ fabric_version' = <<>>
             /\ UNCHANGED <<files, jar_name>>
        ELSE /\ files' = Del(Put(Put(files, Append(cwd, Jar("fabric-server-launch")), <<"bytes">>),
                                 Append(cwd, Jar("server")), <<"bytes">>),
                             Append(cwd, ScriptFabricInstaller))
             /\ ScriptReturn(FabricName)
             /\ UNCHANGED <<minecraft, fabric_version>>
    /\ UNCHANGED <<cwd, dirs, platform, MINECRAFT, loader, is_mcdr, python, versions_json,
                   url, server_url, carpet_name, net, cwd_call, probe>>

\* the states in which script.py calls server_loader (lines 109 and 286)
InitScript ==
    /\ pc = "script_server_loader"
    /\ exit_code = -1
    /\ msg = ""
    /\ platform = "linux"
    /\ is_mcdr \in BOOLEAN
    /\ cwd = (IF is_mcdr THEN <<FOLDER, SERVER>> ELSE <<FOLDER>>)
    /\ dirs = (IF is_mcdr THEN {<<>>, <<FOLDER>>, <<FOLDER, SERVER>>} ELSE {<<>>, <<FOLDER>>})
    /\ files = (IF is_mcdr
                THEN Put(Put(<<>>, <<FOLDER, CONFIG>>, ConfigYml(CONSOLE_LINE + 1)),
                         <<FOLDER, PERMISSION>>, PermissionYml(OWNER_LINE + 1))
                ELSE <<>>)
    /\ MINECRAFT = <<>>
    /\ loader = 0
    /\ python = "python3"
    /\ jar_name = <<>>
    /\ minecraft = <<>>
    /\ versions_json = <<>>
    /\ url = <<>>
    /\ server_url = <<>>
    /\ fabric_version = <<>>
    /\ carpet_name = <<>>
    /\ net = <<>>
    /\ installs = 0
    /\ cwd_call = <<>>
    /\ probe = <<>>

NextScript ==
    \/ ScriptServerLoader
    \/ ScriptVanillaManifest
    \/ ScriptVanillaPrompt(ScriptTyped)
    \/ ScriptVanillaMeta
    \/ ScriptVanillaDownload
    \/ ScriptFabricDownload
    \/ ScriptFabricPrompt(ScriptTyped)
    \/ ScriptFabricInstall

SpecScript == InitScript /\ [][NextScript]_vars

(***************************************************************************)
(* The four writes alone, each applied to a file twice                     *)
(***************************************************************************)
\* the last line of a file without its "\n"
Chop(text) == IF text = <<>> THEN text ELSE SubSeq(text, 1, Len(text) - 1)

\* the line that holds a write's setting before the write, and how the
\* setting's line is told from the others
KeyLine(kind) ==
    CASE kind = "start_command" -> <<"start_command: ", "echo Hello world from MCDReforged", NL>>
      [] kind = "owner" -> <<"- ", "Notch", NL>>
      [] kind = "console" -> ConsoleLine("false")
      [] OTHER -> <<"eula=false", NL>>
KeyTokens(kind) ==
    CASE kind = "start_command" -> {"start_command: "}
      [] kind = "owner" -> {"- "}
      [] kind = "console" -> {"disable_console_thread: "}
      [] OTHER -> {"eula=false", "eula=true"}

\* a file of n lines with the setting on line k, as another release of
\* MCDReforged or of the server may lay it out
KeyedFile(kind, n, k) == FileOf(n, (k :> KeyLine(kind)))

\* the files of 0..MaxLines lines `mcdreforged init` and the server may leave
PatchTexts(kind) ==
    LET made(n) == CASE kind = "start_command" -> ConfigYml(n)
                     [] kind = "owner" -> PermissionYml(n)
                     [] kind = "console" -> ConfigYml(n)
                     [] OTHER -> EulaTxt(n)
    IN  UNION {{made(n), Chop(made(n))} : n \in 0..MaxLines}
        \cup UNION {{KeyedFile(kind, n, k) : k \in 0..(n - 1)} : n \in 1..MaxLines}

\* what each write puts in: a jar name, a nickname, a toggle value, nothing
PatchArgs(kind) ==
    CASE kind = "start_command" -> {N("server"), FabricName}
      [] kind = "owner" -> Nicknames \ {<<>>}
      [] kind = "console" -> {N("true"), N("false")}
      [] OTHER -> {<<>>}

PatchKinds == {"start_command", "owner", "console", "eula"}

PatchIndex(kind) ==
    CASE kind = "start_command" -> START_COMMAND_LINE
      [] kind = "owner" -> OWNER_LINE
      [] kind = "console" -> CONSOLE_LINE
      [] OTHER -> EULA_LINE

Patch(kind, arg, text) ==
    CASE kind = "start_command" -> PatchStartCommand(text, arg)
      [] kind = "owner" -> PatchOwner(text, arg)
      [] kind = "console" -> PatchConsole(text, arg[1])
      [] OTHER -> PatchEula(text)

\* one application: read the file, assign the line, write the file
ApplyPatch ==
    /\ pc = "patch"
    /\ probe.n < 2
    /\ IF HasLine(probe.text, PatchIndex(probe.kind))
       THEN /\ probe' = [probe EXCEPT !.prev = probe.text,
                                      !.text = Patch(probe.kind, probe.arg, probe.text),
                                      !.n = @ + 1]
            /\ Warn("patch", "written")
       ELSE /\ Crash("IndexError")
            /\ UNCHANGED probe
    /\ UNCHANGED <<fsys, glob, locs, logs>>

InitPatch ==
    /\ pc = "patch"
    /\ exit_code = -1
    /\ msg = ""
    /\ platform = "linux"
    /\ is_mcdr = TRUE
    /\ cwd = <<FOLDER>>
    /\ dirs = {<<>>, <<FOLDER>>, <<FOLDER, SERVER>>}
    /\ files = <<>>
    /\ MINECRAFT = <<>>
    /\ loader = 0
    /\ python = "python3"
    /\ jar_name = <<>>
    /\ minecraft = <<>>
    /\ versions_json = <<>>
    /\ url = <<>>
    /\ server_url = <<>>
    /\ fabric_version = <<>>
    /\ carpet_name = <<>>
    /\ net = <<>>
    /\ installs = 0
    /\ cwd_call = <<>>
    /\ \E kind \in PatchKinds :
        \E arg \in PatchArgs(kind), text \in PatchTexts(kind) :
            probe = [kind |-> kind, arg |-> arg, text |-> text, prev |-> text, n |-> 0]

NextPatch == ApplyPatch

SpecPatch == InitPatch /\ [][NextPatch]_vars

(***************************************************************************)
(* subprocess_logger alone, with its child                                 *)
(*                                                                         *)
(* probe holds the call and the child: what the child has still to write   *)
(* (script, each line to "out" or to "err"), how many lines sit unread in  *)
(* each pipe (out, err), whether the child runs or has exited, its return  *)
(* code, the parameters stdout, stderr and exit_in_error, and the lines    *)
(* logged so far.  A write to a full pipe blocks the child; a read of an   *)
(* empty pipe blocks the parent until the child has exited, which closes   *)
(* the pipe's write end.                                                    *)
(***************************************************************************)
\* how many lines a pipe holds before a write blocks
PipeCap == 2
\* how many lines the child writes at most
MaxChildLines == 3

RECURSIVE SeqsUpTo(_, _)
SeqsUpTo(S, n) ==
    IF n = 0 THEN {<<>>}
    ELSE LET shorter == SeqsUpTo(S, n - 1)
         IN  shorter \cup {Append(q, x) : q \in shorter, x \in S}

PipePcs == {"sp_stdout", "sp_stderr", "sp_wait"}

\* the child writes its next line, if the pipe has room for it
ChildWrite ==
    /\ pc \in PipePcs
    /\ probe.child = "running"
    /\ probe.script # <<>>
    /\ IF Head(probe.script) = "out"
       THEN /\ probe.out < PipeCap
            /\ probe' = [probe EXCEPT !.script = Tail(@), !.out = @ + 1]
       ELSE /\ probe.err < PipeCap
            /\ probe' = [probe EXCEPT !.script = Tail(@), !.err = @ + 1]
    /\ UNCHANGED <<ctrl, fsys, glob, locs, logs>>

\* the child has written everything and exits
ChildExit ==
    /\ pc \in PipePcs
    /\ probe.child = "running"
    /\ probe.script = <<>>
    /\ probe' = [probe EXCEPT !.child = "exited"]
    /\ UNCHANGED <<ctrl, fsys, glob, locs, logs>>

\* lines 79-82: log the lines of stdout until its end
LogStdout ==
    /\ pc = "sp_stdout"
    /\ IF ~probe.stdout
       THEN Goto("sp_stderr") /\ UNCHANGED probe
       ELSE IF probe.out > 0
       THEN /\ probe' = [probe EXCEPT !.out = @ - 1, !.logged = Append(@, "out")]
            /\ UNCHANGED ctrl
       ELSE /\ probe.child = "exited"
            /\ Goto("sp_stderr")
            /\ UNCHANGED probe
    /\ UNCHANGED <<fsys, glob, locs, logs>>

\* lines 83-86: then log the lines of stderr until its end
LogStderr ==
    /\ pc = "sp_stderr"
    /\ IF ~probe.stderr
       THEN Goto("sp_wait") /\ UNCHANGED probe
       ELSE IF probe.err > 0
       THEN /\ probe' = [probe EXCEPT !.err = @ - 1, !.logged = Append(@, "err")]
            /\ UNCHANGED ctrl
       ELSE /\ probe.child = "exited"
            /\ Goto("sp_wait")
            /\ UNCHANGED probe
    /\ UNCHANGED <<fsys, glob, locs, logs>>

\* lines 87-91: wait for the child, exit 1 on a return code other than 0
ProcessWait ==
    /\ pc = "sp_wait"
    /\ probe.child = "exited"
    /\ IF probe.returncode # 0 /\ probe.exit_in_error
       THEN Exit(1, "subprocess_failed")
       ELSE Goto("sp_returned")
    /\ UNCHANGED <<fsys, glob, locs, logs, probe>>

InitPipes ==
    /\ pc = "sp_stdout"
    /\ exit_code = -1
    /\ msg = ""
    /\ platform = "linux"
    /\ is_mcdr = FALSE
    /\ cwd = <<FOLDER>>
    /\ dirs = {<<>>, <<FOLDER>>}
    /\ files = <<>>
    /\ MINECRAFT = <<>>
    /\ loader = 0
    /\ python = "python3"
    /\ jar_name = <<>>
    /\ minecraft = <<>>
    /\ versions_json = <<>>
    /\ url = <<>>
    /\ server_url = <<>>
    /\ fabric_version = <<>>
    /\ carpet_name = <<>>
    /\ net = <<>>
    /\ installs = 0
    /\ cwd_call = <<>>
    /\ \E script \in SeqsUpTo({"out", "err"}, MaxChildLines), rc \in {0, 1},
          stdout \in BOOLEAN, stderr \in BOOLEAN, exit_in_error \in BOOLEAN :
        probe = [script |-> script, out |-> 0, err |-> 0, child |-> "running",
                 returncode |-> rc, stdout |-> stdout, stderr |-> stderr,
                 exit_in_error |-> exit_in_error, logged |-> <<>>]

NextPipes ==
    \/ ChildWrite
    \/ ChildExit
    \/ LogStdout
    \/ LogStderr
    \/ ProcessWait

SpecPipes == InitPipes /\ [][NextPipes]_vars

(***************************************************************************)
(* post_setup alone, called as main calls it after a loader has returned   *)
(***************************************************************************)
\* the numbers of the versions post_setup is called with
PostNumbers == {<<"1">>, <<"5">>, <<"7">>, <<"1", "2">>}

\* what MINECRAFT holds when post_setup is called: release versions of two
\* and three numbers, and what a loader leaves after an empty or an
\* unreleased request
PostVersions ==
    {a \o <<".">> \o b : a \in {<<"1">>, <<"2">>}, b \in PostNumbers}
    \cup {<<"1", ".">> \o b \o <<".">> \o c : b \in PostNumbers, c \in PostNumbers}
    \cup {<<>>, <<"1">>, <<"1", ".", "x">>}

InitPost ==
    /\ pc = "post_setup"
    /\ exit_code = -1
    /\ msg = ""
    /\ platform \in {"win32", "linux"}
    /\ is_mcdr \in BOOLEAN
    /\ cwd = <<FOLDER>>
    /\ dirs \in (IF is_mcdr THEN {{<<>>, <<FOLDER>>, <<FOLDER, SERVER>>}}
                 ELSE {{<<>>, <<FOLDER>>}})
    /\ files \in (IF is_mcdr
                  THEN {(<<FOLDER, CONFIG>> :> ConfigYml(n)) : n \in {CONSOLE_LINE, CONSOLE_LINE + 1}}
                       \cup {<<>>}
                  ELSE {<<>>})
    /\ MINECRAFT \in PostVersions
    /\ loader = 2
    /\ python = (IF platform = "win32" THEN "python" ELSE "python3")
    /\ jar_name = FabricName
    /\ minecraft = <<>>
    /\ versions_json = <<>>
    /\ url = <<>>
    /\ server_url = <<>>
    /\ fabric_version = <<>>
    /\ carpet_name = <<>>
    /\ net = <<>>
    /\ installs = 1
    /\ cwd_call = <<FOLDER>>
    /\ probe = <<>>

NextPost ==
    \/ LaunchScripts
    \/ VersionFilter
    \/ PostAsk
    \/ PostStart
    \/ PostEula

SpecPost == InitPost /\ [][NextPost]_vars

(***************************************************************************)
(* Properties                                                              *)
(***************************************************************************)
\* where a loader has returned to its caller
Returned == pc \in {"mcdr_back", "post_setup"}
\* where a run has ended without a return
Failed == pc \in {"exited", "crashed"}

\* C1: a version typed at the vanilla, fabric or quilt prompt goes on to the
\* lookup or the installer only if it is all digits and dots, every text of
\* digits and dots does go on, and the invalid-characters outcome comes with
\* no network request made before it.
C1_ValidatedBeforeNetwork ==
    /\ (pc \in {"vanilla_manifest", "fabric_install", "quilt_install"} /\ minecraft # <<>>)
          => AllDigitsDots(minecraft)
    /\ (loader = 1 /\ pc = "crashed" /\ net = <<>>) => ~AllDigitsDots(minecraft)
    /\ msg = "invalid_characters" => net = <<>>

\* a version of two or three numeric components, and its number
WellFormed(m) ==
    LET tmp == Split(m, ".")
    IN  Len(tmp) \in {2, 3} /\ \A k \in 1..Len(tmp) : IsInt(tmp[k])
Triple(m) ==
    LET tmp == Split(m, ".")
    IN  <<IntVal(tmp[1]), IntVal(tmp[2]), IF Len(tmp) = 3 THEN IntVal(tmp[3]) ELSE 0>>
Below(a, b) ==
    \/ a[1] < b[1]
    \/ a[1] = b[1] /\ a[2] < b[2]
    \/ a[1] = b[1] /\ a[2] = b[2] /\ a[3] < b[3]

\* C2: the vanilla loader ends the run as unsupported exactly for the
\* versions below 1.2.5, with no network request made before; a version of
\* two or three numeric components at or above 1.2.5 goes on.
C2_RejectsBelowMinimum ==
    (loader = 1 /\ WellFormed(minecraft)) =>
        /\ (pc = "exited" /\ msg = "unsupported_version")
              => (Below(Triple(minecraft), <<1, 2, 5>>) /\ net = <<>>)
        /\ pc = "vanilla_manifest" => ~Below(Triple(minecraft), <<1, 2, 5>>)

\* C3: an empty answer at the vanilla prompt does not end the run: the
\* request is resolved to the manifest's latest release and the run goes on.
C3_EmptyResolvesToLatest ==
    (loader = 1 /\ pc \notin {"loader_setup", "vanilla_prompt"} /\ minecraft = <<>>)
        => ~Failed

\* C4: when entries of the fetched manifest have the requested id, the url
\* taken is that of the first of them in list order, and it is the url the
\* metadata is fetched from.
C4_FirstMatch ==
    /\ \A i \in 1..Len(versions_json) :
          (/\ versions_json[i].id = minecraft
           /\ \A j \in 1..(i - 1) : versions_json[j].id # minecraft)
             => url = versions_json[i].url
    /\ pc = "vanilla_download" => net[Len(net)] = url

\* two entries with the requested id and different urls: the first is taken
C4_Witness ==
    /\ pc = "vanilla_download"
    /\ Len(versions_json) = 2
    /\ versions_json[1].id = minecraft
    /\ versions_json[2].id = minecraft
    /\ versions_json[1].url # versions_json[2].url
    /\ url = versions_json[1].url

\* C5: once the request is read and no entry of the fetched manifest has its
\* id, the run fails in its next step and no further request is made.
C5_NoMatchFails ==
    [][(/\ pc \in {"vanilla_meta", "script_vanilla_meta"}
        /\ \A i \in 1..Len(versions_json) : versions_json[i].id # minecraft)
          => (net' = net /\ pc' \in {"exited", "crashed"})]_vars

\* C6: whenever a loader has returned, the name it returned is not empty.
C6_NonEmptyName == Returned => jar_name # <<>>

\* the vanilla loader has returned the stem of the downloaded server.jar
C6_Witness ==
    /\ pc = "post_setup"
    /\ loader = 1
    /\ jar_name = N("server")
    /\ Append(cwd, Jar("server")) \in DOMAIN files

\* C7: for each of the four writes and each file, the second application
\* leaves the file as the first application wrote it.
C7_Idempotent == probe.n = 2 => probe.text = probe.prev

\* the owner line written twice into a permission.yml that had another owner
C7_Witness ==
    /\ probe.n = 2
    /\ probe.kind = "owner"
    /\ probe.text = PatchOwner(PermissionYml(OWNER_LINE + 1), N("Steve"))
    /\ probe.text # PermissionYml(OWNER_LINE + 1)

\* C8: within one run no installer is run a second time and no url is
\* requested a second time.
C8_NoSecondExecution ==
    /\ installs <= 1
    /\ \A i, j \in 1..Len(net) : i # j => net[i] # net[j]

\* C9: when a loader has returned, the working directory is the one it was
\* called in.
C9_CwdRestored == Returned => cwd = cwd_call

\* the installer jars and Carpet's update directory
Installers == {FabricInstaller, QuiltInstaller, CarpetInstaller}
TransientLeft ==
    \/ \E p \in DOMAIN files : p[Len(p)] \in Installers
    \/ \E d \in dirs : d # <<>> /\ d[Len(d)] = UPDATE

\* C10 as stated: when a loader has ended, by a return or by a failure, no
\* installer jar and no update directory is left.
C10_CleanOnSuccessOrFailure == (Returned \/ Failed) => ~TransientLeft

\* C10: when a loader has returned, no installer jar and no update directory
\* is left.
C10_CleanOnReturn == Returned => ~TransientLeft

\* Carpet has returned: server.jar is there, the installer and ./update are not
C10_Witness ==
    /\ pc = "post_setup"
    /\ loader = 4
    /\ Append(cwd, Jar("server")) \in DOMAIN files
    /\ Append(cwd, CarpetInstaller) \notin DOMAIN files
    /\ Append(cwd, UPDATE) \notin dirs

\* the errors a handler catches and reports: network, subprocess, file
CaughtFatal == {"RequestException", "subprocess_failed", "OSError", "FileNotFoundError"}

\* C11: a run that reaches 'Script done' exits 0, a run ended by a caught
\* network, subprocess or file error exits 1, and a run ended because the
\* platform is unsupported or java is missing does not exit 0.
C11_ExitCodes ==
    /\ pc = "done" => exit_code = 0
    /\ (pc = "exited" /\ msg \in CaughtFatal) => exit_code = 1
    /\ (pc = "exited" /\ msg \in {"unsupported_os", "java_needed"}) => exit_code # 0

\* the numbers of the lines of a file that hold a write's setting
KeyLines(kind, data) == {i \in 1..Len(data) : data[i][1] \in KeyTokens(kind)}
\* the line a write of the given kind and argument puts in
PatchedLine(kind, arg) ==
    CASE kind = "start_command" -> StartCommandLine(arg)
      [] kind = "owner" -> NicknameLine(arg)
      [] kind = "console" -> ConsoleLine(arg[1])
      [] OTHER -> EulaLine

\* C12: on a file that holds the setting's key on some line, a write
\* succeeds, puts its line where the key is and leaves every other line as
\* it was, in the same order.
C12_OnlyKeyLine ==
    LET old == ReadLines(probe.prev)
        new == ReadLines(probe.text)
    IN  /\ (pc = "crashed") => KeyLines(probe.kind, old) = {}
        /\ (probe.n = 1 /\ KeyLines(probe.kind, old) # {}) =>
              /\ Len(new) = Len(old)
              /\ \A i \in 1..Len(old) :
                    new[i] = IF i \in KeyLines(probe.kind, old)
                             THEN PatchedLine(probe.kind, probe.arg)
                             ELSE old[i]

\* where each loader's own strategy is at work
StrategyPcs(k) ==
    CASE k = 1 -> {"vanilla_prompt", "vanilla_manifest", "vanilla_meta", "vanilla_download"}
      [] k = 2 -> {"fabric_download", "fabric_prompt", "fabric_install"}
      [] k = 3 -> {"quilt_download", "quilt_prompt", "quilt_latest", "quilt_install"}
      [] OTHER -> {"carpet_download", "carpet_install", "carpet_collect"}

UpdateZips ==
    {n \in UpdateNames : /\ EndsWith(n, <<".", "zip">>)
                         /\ Append(Append(cwd_call, UPDATE), n) \in DOMAIN files}

\* C14: the Carpet strategy returns only from an update directory with
\* exactly one zip file; with none or several it returns nothing and leaves
\* no server.jar behind.
C14_ExactlyOneZip ==
    [][(pc = "carpet_collect" /\ Cardinality(UpdateZips) # 1) =>
          /\ ~Returned'
          /\ Append(cwd_call, Jar("server")) \notin DOMAIN files']_vars

\* C15: called with both streams logged, subprocess_logger and its child are
\* never stuck: until the call has returned or exited, the child or the
\* parent can take a step.
C15_NoDeadlock ==
    (probe.stdout /\ probe.stderr) =>
        (pc \in {"sp_returned", "exited"} \/ ENABLED NextPipes)

\* an eula.txt whose line is the one the script writes
EulaSetTrue(f) ==
    \E path \in DOMAIN f :
        /\ path \in {<<FOLDER, EULA>>, <<FOLDER, SERVER, EULA>>}
        /\ HasLine(f[path], EULA_LINE)
        /\ ReadLines(f[path])[EULA_LINE + 1] = EulaLine

\* a version of two or three numbers at or above 1.7.10
AtLeast1710(m) == WellFormed(m) /\ ~Below(Triple(m), <<1, 7, 10>>)

\* C16: eula.txt gets its eula=true line only in the step after the first
\* start has completed, which follows the answer yes and the subprocess's
\* exit code 0, and only for a version at or above 1.7.10; a run that has
\* not come this far holds no eula.txt with that line.
C16_EulaGated ==
    [][(EulaSetTrue(files') /\ ~EulaSetTrue(files)) =>
          /\ pc = "post_eula"
          /\ msg = "first_start_complete"
          /\ AtLeast1710(MINECRAFT)
          /\ pc' = "done"]_vars

\* the script has set eula=true for 1.7.12
C16_Witness ==
    /\ pc = "done"
    /\ EulaSetTrue(files)
    /\ MINECRAFT = <<"1", ".", "7", ".", "1", "2">>

\* a dotted version of at least two components, each a number
TwoNumeric(m) ==
    LET tmp == Split(m, ".")
    IN  Len(tmp) >= 2 /\ \A k \in 1..Len(tmp) : IsInt(tmp[k])

\* C17: once a loader has returned its jar name, MINECRAFT is a dotted
\* version of at least two numeric components, and the version filter of
\* post_setup does not end the run with an uncaught error.
C17_VersionAfterLoader ==
    jar_name # <<>> =>
        /\ TwoNumeric(MINECRAFT)
        /\ ~(pc = "crashed" /\ msg \in {"IndexError", "ValueError"}
             /\ <<FOLDER, START_SH>> \in DOMAIN files
             /\ ~TwoNumeric(MINECRAFT))

====
